---- MODULE Spec2Model ----
(***************************************************************************)
(* State-machine model of the SketchLearner component                       *)
(* (src/components/sketch-learner.tsx).                                     *)
(*                                                                          *)
(* Every event handler of the component is one action.  An async handler   *)
(* is split at its awaits: the part up to the first await is the action    *)
(* named after the handler, each continuation is an action named           *)
(* handler_step.  A handler reads the React state of the render it was     *)
(* created in, so a continuation that reads `labels` or `model` after an   *)
(* await reads the value captured at the call; the captured values are     *)
(* fields of the in-flight call.  State setters take effect before the     *)
(* next handler or continuation runs.                                      *)
(***************************************************************************)
EXTENDS Bags, FiniteSets, Integers, Sequences, TLC

(* ------------------------------ bounds --------------------------------- *)
\* handler calls the user triggers in a session
MaxClicks == 5
\* examples the user adds in a session
MaxExamples == 2
\* calls of buildModel in a session
MaxModels == 2
\* async handler calls (train, predict, save, load) suspended at an await
MaxInFlight == 2
\* softmax outputs are quantised to multiples of 1/MaxProb
MaxProb == 2
\* longest probability vector given to the argmax of predict on its own
MaxLen == 3

(* ------------------------- program constants --------------------------- *)
imageSize == 28
Epochs == 10

\* strings the prompt of addLabel can return besides cancel and ""
LabelNames == {"circle", "square", "star"}
\* prompt() returns null on cancel; null and "" are both falsy
PromptNull == "<null>"
PromptInputs == LabelNames \cup {PromptNull, ""}
\* the JavaScript value undefined, as read from an array out of range
Undefined == "<undefined>"
\* a float that is not a number
NaN == -1

(* --------------------------- array helpers ----------------------------- *)
\* Array.prototype.indexOf: first position (from 0) strictly equal, or -1
RECURSIVE IndexFrom(_, _, _)
IndexFrom(arr, v, i) ==
  IF i > Len(arr) THEN -1
  ELSE IF arr[i] = v THEN i - 1
  ELSE IndexFrom(arr, v, i + 1)

indexOf(arr, v) == IndexFrom(arr, v, 1)

includes(arr, v) == \E i \in 1..Len(arr) : arr[i] = v

\* arr[i] with a 0-based index; out of range reads undefined
At(arr, i) == IF i \in 0..(Len(arr) - 1) THEN arr[i + 1] ELSE Undefined

\* Array.prototype.filter(l => l !== v)
RECURSIVE filterNot(_, _)
filterNot(arr, v) ==
  IF arr = <<>> THEN <<>>
  ELSE IF Head(arr) # v THEN <<Head(arr)>> \o filterNot(Tail(arr), v)
  ELSE filterNot(Tail(arr), v)

(* ------------------------------ tensors -------------------------------- *)
\* a tensor is its shape and, where the model needs it, its values
Tensor(shape, data) == [shape |-> shape, data |-> data]

\* canvasToTensor: [1, imageSize, imageSize, 1]; the pixels are not modelled
canvasToTensor == Tensor(<<1, imageSize, imageSize, 1>>, <<>>)

\* tf.oneHot(labelIdx, depth).expandDims(0): shape [1, depth]
oneHot(labelIdx, depth) ==
  Tensor(<<1, depth>>, [i \in 1..depth |-> IF i - 1 = labelIdx THEN 1 ELSE 0])

\* tf.concat(ts, 0) throws on an empty list and on tensors whose shapes
\* differ outside axis 0
concatOk(ts) ==
  /\ Len(ts) > 0
  /\ \A i \in 1..Len(ts) : Tail(ts[i].shape) = Tail(ts[1].shape)

RECURSIVE SumAxis0(_)
SumAxis0(ts) == IF ts = <<>> THEN 0 ELSE Head(ts[1].shape) + SumAxis0(Tail(ts))

concat(ts) == Tensor(<<SumAxis0(ts)>> \o Tail(ts[1].shape), <<>>)

(* ------------------------------- JSON ---------------------------------- *)
\* JSON text is a sequence of tokens; a string token carries its characters
Tok(t, v) == [t |-> t, v |-> v]

RECURSIVE StringifyItems(_)
StringifyItems(arr) ==
  IF arr = <<>> THEN <<>>
  ELSE IF Len(arr) = 1 THEN <<Tok("string", arr[1])>>
  ELSE <<Tok("string", arr[1]), Tok(",", "")>> \o StringifyItems(Tail(arr))

\* JSON.stringify of an array of strings
JSONstringify(arr) == <<Tok("[", "")>> \o StringifyItems(arr) \o <<Tok("]", "")>>

\* a parsed value: ok = FALSE is a SyntaxError, isArray = FALSE is null
Parsed(ok, isArray, items) == [ok |-> ok, isArray |-> isArray, items |-> items]

\* the elements between the brackets: string (, string)*
RECURSIVE ParseItems(_)
ParseItems(toks) ==
  IF toks = <<>> THEN Parsed(FALSE, FALSE, <<>>)
  ELSE IF Head(toks).t # "string" THEN Parsed(FALSE, FALSE, <<>>)
  ELSE IF Len(toks) = 1 THEN Parsed(TRUE, TRUE, <<Head(toks).v>>)
  ELSE IF toks[2].t # "," THEN Parsed(FALSE, FALSE, <<>>)
  ELSE LET rest == ParseItems(SubSeq(toks, 3, Len(toks)))
       IN  IF rest.ok THEN Parsed(TRUE, TRUE, <<Head(toks).v>> \o rest.items)
           ELSE rest

\* JSON.parse, for the texts "null" and arrays of strings
JSONparse(toks) ==
  IF toks = <<Tok("null", "")>> THEN Parsed(TRUE, FALSE, <<>>)
  ELSE IF Len(toks) < 2 THEN Parsed(FALSE, FALSE, <<>>)
  ELSE IF toks[1].t # "[" \/ toks[Len(toks)].t # "]" THEN Parsed(FALSE, FALSE, <<>>)
  ELSE IF Len(toks) = 2 THEN Parsed(TRUE, TRUE, <<>>)
  ELSE ParseItems(SubSeq(toks, 2, Len(toks) - 1))

\* the item without the || "null": a missing item is parsed as it is
getItemOrNull_raw(item) == item

\* localStorage.getItem(key) || "null": a missing item reads null
getItemOrNull(item) == IF item = <<>> THEN <<Tok("null", "")>> ELSE item

(* ------------------------------ values --------------------------------- *)
\* the status line: which message, its number and its text parameter
St(kind, n, text) == [kind |-> kind, n |-> n, text |-> text]

\* useState(null) for model; a model is the object buildModel or
\* tf.loadLayersModel returned.  id numbers the buildModel calls (0: loaded),
\* units is the width of the softmax layer, snap the training state of the
\* weights a loaded model was restored from.
NoModel == [kind |-> "null", id |-> 0, units |-> 0, snap |-> ""]

\* buildModel(numClasses): a new model object, its last layer numClasses wide
buildModel(id, numClasses) ==
  [kind |-> "model", id |-> id, units |-> numClasses, snap |-> ""]

\* the stored model artifact: absent, or topology and weights
NoArtifact == [kind |-> "absent", units |-> 0, snap |-> ""]

\* the tensors alive in the tf engine: held counts the x and y that
\* datasetRef holds, orphan the x of addExample calls that threw after the
\* capture, batch the X and Y of train, infer the x and probs of predict
Live(held, orphan, batch, infer) ==
  [held |-> held, orphan |-> orphan, batch |-> batch, infer |-> infer]

NoTensors == Live(0, 0, 0, 0)

\* useState(null) for prediction
NoPrediction == [kind |-> "null", label |-> "", probs |-> <<>>]

(* ------------------------------- state --------------------------------- *)
VARIABLES
  labels,        \* useState(["circle", "square"])
  currentLabel,  \* useState("circle")
  examples,      \* useState({}): label -> count, a missing key reads 0
  model,         \* useState(null)
  status,        \* useState("Ready")
  prediction,    \* useState(null)
  dataset,       \* datasetRef.current: {xs, ys}
  fitLog,        \* per built model: is its fit "running", "done" or "failed"
  idbModel,      \* IndexedDB, key sketch-learner-model
  lsLabels,      \* localStorage, key sketch-learner-labels (JSON text)
  trains,        \* train calls suspended in m.fit
  predicts,      \* predict calls suspended in outTensor.data()
  saves,         \* saveModel calls suspended in model.save
  loads,         \* loadModel calls suspended in tf.loadLayersModel
  arrIn,         \* a probability vector handed to the argmax of predict
  tensors,       \* live tensors: held by the dataset, X and Y, of predict
  clicks         \* handler calls the user has triggered so far

\* what the component and the store hold
state == <<labels, currentLabel, examples, model, status, prediction, dataset,
           fitLog, idbModel, lsLabels, trains, predicts, saves, loads, arrIn, tensors>>

vars == <<state, clicks>>

\* the training state of the weights of a model object
fitOf(m) == IF m.id = 0 THEN m.snap ELSE fitLog[m.id]

InFlight ==
  Cardinality(trains) + BagCardinality(predicts)
    + BagCardinality(saves) + BagCardinality(loads)

\* a loadModel call: pc "reading" until IndexedDB answered, then "read"
LoadTask(pc, artifact) == [pc |-> pc, artifact |-> artifact]

\* The component after mount: the initial state of every useState and
\* useRef, an empty store, and the loadModel call of the mount effect
\* suspended at its await.
Init ==
  /\ labels = <<"circle", "square">>
  /\ currentLabel = "circle"
  /\ examples = [l \in LabelNames |-> 0]
  /\ model = NoModel
  /\ status = St("Ready", 0, "")
  /\ prediction = NoPrediction
  /\ dataset = [xs |-> <<>>, ys |-> <<>>]
  /\ fitLog = <<>>
  /\ idbModel = NoArtifact
  /\ lsLabels = <<>>
  /\ trains = {}
  /\ predicts = EmptyBag
  /\ saves = EmptyBag
  /\ loads = SetToBag({LoadTask("reading", NoArtifact)})
  /\ arrIn = <<>>
  /\ tensors = NoTensors
  /\ clicks = 0

(* -------------------------- synchronous handlers ----------------------- *)
\* the select box: onChange={(e) => setCurrentLabel(e.target.value)}
selectLabel ==
  \E l \in {labels[i] : i \in 1..Len(labels)} :
    /\ currentLabel' = l
    /\ UNCHANGED <<labels, examples, model, status, prediction, dataset, fitLog,
                   idbModel, lsLabels, trains, predicts, saves, loads, arrIn, tensors>>

\* clearCanvas, as the Clear button calls it
clearCanvas ==
  /\ prediction' = NoPrediction
  /\ UNCHANGED <<labels, currentLabel, examples, model, status, dataset, fitLog,
                 idbModel, lsLabels, trains, predicts, saves, loads, arrIn, tensors>>

\* the update without the spread of prev: the other counts are lost
examplesAfterAdd_noSpread(prev, l) ==
  [k \in DOMAIN prev |-> IF k = l THEN prev[k] + 1 ELSE 0]

\* the counts left as they were
examplesAfterAdd_stale(prev, l) == prev

\* setExamples((prev) => ({ ...prev, [l]: (prev[l] || 0) + 1 }))
examplesAfterAdd(prev, l) == [prev EXCEPT ![l] = @ + 1]

\* tf.oneHot rejects a depth below 2
oneHotThrows(depth) == depth < 2

\* addExample.  captured = FALSE: canvasToTensor throws.
addExample ==
  \E captured \in BOOLEAN :
    LET labelIdx == indexOf(labels, currentLabel)
        x == canvasToTensor
        y == oneHot(labelIdx, Len(labels))
        cause == IF ~captured THEN "Canvas not ready"
                 ELSE IF labelIdx = -1 THEN "Label not found"
                 ELSE IF oneHotThrows(Len(labels)) THEN "oneHot depth"
                 ELSE ""
    IN  IF cause # ""
        THEN /\ status' = St("Failed to add example", 0, cause)
             /\ tensors' = [tensors EXCEPT
                              !.orphan = @ + (IF captured THEN 1 ELSE 0)]
             /\ UNCHANGED <<labels, currentLabel, examples, model, prediction,
                            dataset, fitLog, idbModel, lsLabels, trains,
                            predicts, saves, loads, arrIn>>
        ELSE /\ Len(dataset.xs) < MaxExamples
             /\ dataset' = [xs |-> Append(dataset.xs, x),
                            ys |-> Append(dataset.ys, y)]
             /\ examples' = examplesAfterAdd(examples, currentLabel)
             /\ status' = St("Added example for", 0, currentLabel)
             /\ prediction' = NoPrediction
             /\ tensors' = [tensors EXCEPT !.held = @ + 2]
             /\ UNCHANGED <<labels, currentLabel, model, fitLog, idbModel,
                            lsLabels, trains, predicts, saves, loads, arrIn>>

\* if (newLabel && !labels.includes(newLabel))
addLabelAccepted(ls, newLabel) ==
  /\ newLabel # PromptNull
  /\ newLabel # ""
  /\ ~includes(ls, newLabel)

\* addLabel; newLabel is what prompt returned
addLabel ==
  \E newLabel \in PromptInputs :
    IF addLabelAccepted(labels, newLabel)
    THEN /\ labels' = Append(labels, newLabel)
         /\ currentLabel' = newLabel
         /\ UNCHANGED <<examples, model, status, prediction, dataset, fitLog,
                        idbModel, lsLabels, trains, predicts, saves, loads,
                        arrIn, tensors>>
    ELSE UNCHANGED state

\* the guard with < for <=: the last label can be removed
removeLabelRejected_lt(ls) == Len(ls) < 1

\* if (labels.length <= 1) return
removeLabelRejected(ls) == Len(ls) <= 1

\* removeLabel that also deletes the count of the removed label
removeLabel_dropsCount ==
  IF removeLabelRejected(labels)
  THEN UNCHANGED state
  ELSE LET updatedLabels == filterNot(labels, currentLabel)
       IN  /\ labels' = updatedLabels
           /\ currentLabel' = At(updatedLabels, 0)
           /\ examples' = [examples EXCEPT ![currentLabel] = 0]
           /\ UNCHANGED <<model, status, prediction, dataset, fitLog,
                          idbModel, lsLabels, trains, predicts, saves, loads,
                          arrIn, tensors>>

\* removeLabel without setCurrentLabel(updatedLabels[0])
removeLabel_keepsCurrent ==
  IF removeLabelRejected(labels)
  THEN UNCHANGED state
  ELSE /\ labels' = filterNot(labels, currentLabel)
       /\ UNCHANGED <<currentLabel, examples, model, status, prediction,
                      dataset, fitLog, idbModel, lsLabels, trains, predicts,
                      saves, loads, arrIn, tensors>>

removeLabel ==
  IF removeLabelRejected(labels)
  THEN UNCHANGED state
  ELSE LET updatedLabels == filterNot(labels, currentLabel)
       IN  /\ labels' = updatedLabels
           /\ currentLabel' = At(updatedLabels, 0)
           /\ UNCHANGED <<examples, model, status, prediction, dataset, fitLog,
                          idbModel, lsLabels, trains, predicts, saves, loads,
                          arrIn, tensors>>

(* -------------------------------- train -------------------------------- *)
\* the precondition off by one: one example short still trains
trainPrecondFails_offByOne(xs, ls) == Len(xs) + 1 < Len(ls)

\* if (xs.length < labels.length)
trainPrecondFails(xs, ls) == Len(xs) < Len(ls)

\* a train call suspended in m.fit: the model it built, the epochs ended,
\* and its X and Y
TrainTask(m, epoch) == [m |-> m, epoch |-> epoch, X |-> "live", Y |-> "live"]

\* m.fit rejects at once when the target's width is not the output width
fitRejects(m, Y) == Y.shape[2] # m.units

\* let X = null; X = tf.tidy(...): what the variable holds after the try
assigned(ok) == IF ok THEN "live" ELSE "null"

\* the tensors the two concats made
concatsMade(X, Y) ==
  (IF X = "live" THEN 1 ELSE 0) + (IF Y = "live" THEN 1 ELSE 0)

\* finally with X.dispose() only: Y is never released
finallyDisposes_onlyX(X, Y) == IF X # "null" THEN 1 ELSE 0

\* finally { if (X) X.dispose(); if (Y) Y.dispose() }: the tensors released
finallyDisposes(X, Y) ==
  (IF X # "null" THEN 1 ELSE 0) + (IF Y # "null" THEN 1 ELSE 0)

\* setStatus(`Epoch ${epoch + 1}/10 - accuracy: ${(acc * 100).toFixed(1)}%`):
\* the text names the metrics the message carries
epochStatus(epoch) == St("Epoch", epoch + 1, "accuracy")

\* formatEpochStatus(logs, epoch): `Epoch e/10 - loss: ... acc: ...`
formatEpochStatus(epoch) == St("Epoch", epoch + 1, "loss accuracy")

\* train up to the await of m.fit.  A concat that throws, or a fit that
\* rejects at once, runs catch and finally before any other handler.
train ==
  LET xs == dataset.xs
      ys == dataset.ys
  IN  IF trainPrecondFails(xs, labels)
      THEN /\ status' = St("Need at least 1 example per class", Len(labels), "")
           /\ UNCHANGED <<labels, currentLabel, examples, model, prediction,
                          dataset, fitLog, idbModel, lsLabels, trains,
                          predicts, saves, loads, arrIn, tensors>>
      ELSE IF ~concatOk(xs) \/ ~concatOk(ys)
      THEN LET X == assigned(concatOk(xs))
               Y == assigned(concatOk(xs) /\ concatOk(ys))
           IN  /\ status' = St("Training failed", 0, "concat")
               /\ tensors' = [tensors EXCEPT
                     !.batch = @ + concatsMade(X, Y) - finallyDisposes(X, Y)]
               /\ UNCHANGED <<labels, currentLabel, examples, model,
                              prediction, dataset, fitLog, idbModel, lsLabels,
                              trains, predicts, saves, loads, arrIn>>
      ELSE LET Y == concat(ys)
               m == buildModel(Len(fitLog) + 1, Len(labels))
           IN  /\ Len(fitLog) < MaxModels
               /\ model' = m
               /\ IF fitRejects(m, Y)
                  THEN /\ status' = St("Training failed", 0, "fit")
                       /\ fitLog' = Append(fitLog, "failed")
                       /\ tensors' = [tensors EXCEPT
                             !.batch = @ + 2 - finallyDisposes("live", "live")]
                       /\ UNCHANGED trains
                  ELSE /\ InFlight < MaxInFlight
                       /\ status' = St("Training model...", 0, "")
                       /\ fitLog' = Append(fitLog, "running")
                       /\ tensors' = [tensors EXCEPT !.batch = @ + 2]
                       /\ trains' = trains \cup {TrainTask(m, 0)}
               /\ UNCHANGED <<labels, currentLabel, examples, prediction,
                              dataset, idbModel, lsLabels, predicts, saves,
                              loads, arrIn>>

\* onEpochEnd: (epoch, logs) => setStatus(`Epoch ${epoch + 1}/10 - ...`)
train_onEpochEnd ==
  \E t \in trains :
    /\ t.epoch < Epochs
    /\ trains' = (trains \ {t}) \cup {TrainTask(t.m, t.epoch + 1)}
    /\ status' = epochStatus(t.epoch)
    /\ UNCHANGED <<labels, currentLabel, examples, model, prediction, dataset,
                   fitLog, idbModel, lsLabels, predicts, saves, loads, arrIn, tensors>>

\* m.fit resolved: setStatus("Training complete!"), then finally
train_complete ==
  \E t \in trains :
    /\ t.epoch = Epochs
    /\ trains' = trains \ {t}
    /\ fitLog' = [fitLog EXCEPT ![t.m.id] = "done"]
    /\ status' = St("Training complete!", 0, "")
    /\ tensors' = [tensors EXCEPT !.batch = @ - finallyDisposes(t.X, t.Y)]
    /\ UNCHANGED <<labels, currentLabel, examples, model, prediction, dataset,
                   idbModel, lsLabels, predicts, saves, loads, arrIn>>

\* m.fit rejected while running (a runtime failure of the backend): catch,
\* then finally
train_catch ==
  \E t \in trains :
    /\ trains' = trains \ {t}
    /\ fitLog' = [fitLog EXCEPT ![t.m.id] = "failed"]
    /\ status' = St("Training failed", 0, "fit")
    /\ tensors' = [tensors EXCEPT !.batch = @ - finallyDisposes(t.X, t.Y)]
    /\ UNCHANGED <<labels, currentLabel, examples, model, prediction, dataset,
                   idbModel, lsLabels, predicts, saves, loads, arrIn>>

(* ------------------------------- predict ------------------------------- *)
\* the smallest value Math.max starts from (-Infinity)
NegInfinity == -2

\* Math.max(...arr): NaN as soon as one argument is NaN
RECURSIVE MathMax(_)
MathMax(arr) ==
  IF arr = <<>> THEN NegInfinity
  ELSE LET a == Head(arr)
           b == MathMax(Tail(arr))
       IN  IF a = NaN \/ b = NaN THEN NaN
           ELSE IF a > b THEN a ELSE b

\* indexOf on numbers compares with ===, which NaN never satisfies
RECURSIVE NumberIndexFrom(_, _, _)
NumberIndexFrom(arr, v, i) ==
  IF i > Len(arr) THEN -1
  ELSE IF arr[i] # NaN /\ v # NaN /\ arr[i] = v THEN i - 1
  ELSE NumberIndexFrom(arr, v, i + 1)

\* lastIndexOf for indexOf: the highest index holding the maximum
maxIdxOf_last(arr) ==
  LET hits == {i \in 1..Len(arr) : arr[i] # NaN /\ arr[i] = MathMax(arr)}
  IN  IF hits = {} THEN -1 ELSE (CHOOSE i \in hits : \A k \in hits : k <= i) - 1

\* const maxIdx = arr.indexOf(Math.max(...arr))
maxIdxOf(arr) == NumberIndexFrom(arr, MathMax(arr), 1)

\* setPrediction({ label: labels[maxIdx], probs: arr })
makePrediction(ls, arr) ==
  [kind |-> "prediction", label |-> At(ls, maxIdxOf(arr)), probs |-> arr]

RECURSIVE SumSeq(_)
SumSeq(v) == IF v = <<>> THEN 0 ELSE Head(v) + SumSeq(Tail(v))

\* what the softmax layer of `units` outputs can return: non-negative
\* values adding up to 1 (in steps of 1/MaxProb), or NaN throughout when the
\* weights have diverged
softmaxOutputs(units) ==
  {v \in [1..units -> 0..MaxProb] : SumSeq(v) = MaxProb}
    \cup {[i \in 1..units |-> NaN]}

\* a predict call suspended in outTensor.data(): the model it ran, the
\* training state of that model at the forward pass, the labels of the
\* render the handler belongs to, the values of the output tensor
PredictTask(m, fit, ls, arr) ==
  [m |-> m, fit |-> fit, labels |-> ls, arr |-> arr, x |-> "live", probs |-> "live"]

\* the guard dropped: predict goes on without a model
modelMissing_never(m) == FALSE

\* if (!model)
modelMissing(m) == m = NoModel

\* predict up to the await.  captured = FALSE: canvasToTensor throws;
\* forwardOk = FALSE: model.predict throws, with x made and not released.
predict ==
  IF modelMissing(model)
  THEN /\ status' = St("Train (or load) a model first", 0, "")
       /\ UNCHANGED <<labels, currentLabel, examples, model, prediction,
                      dataset, fitLog, idbModel, lsLabels, trains, predicts,
                      saves, loads, arrIn, tensors>>
  ELSE \E captured \in BOOLEAN, forwardOk \in BOOLEAN :
         IF ~captured \/ ~forwardOk
         THEN /\ status' = St("Prediction failed", 0,
                              IF ~captured THEN "Canvas not ready" ELSE "predict")
              /\ tensors' = [tensors EXCEPT
                               !.infer = @ + (IF captured THEN 1 ELSE 0)]
              /\ UNCHANGED <<labels, currentLabel, examples, model, prediction,
                             dataset, fitLog, idbModel, lsLabels, trains,
                             predicts, saves, loads, arrIn>>
         ELSE \E arr \in softmaxOutputs(model.units) :
                /\ InFlight < MaxInFlight
                /\ predicts' = predicts (+)
                     SetToBag({PredictTask(model, fitOf(model), labels, arr)})
                /\ tensors' = [tensors EXCEPT !.infer = @ + 2]
                /\ UNCHANGED <<labels, currentLabel, examples, model, status,
                               prediction, dataset, fitLog, idbModel, lsLabels,
                               trains, saves, loads, arrIn>>

\* predict after the await.  dataOk = FALSE: outTensor.data() rejected.
predict_resume ==
  \E t \in BagToSet(predicts), dataOk \in BOOLEAN :
    /\ predicts' = predicts (-) SetToBag({t})
    /\ IF dataOk
       THEN /\ prediction' = makePrediction(t.labels, t.arr)
            /\ tensors' = [tensors EXCEPT !.infer = @ - 2]
            /\ UNCHANGED status
       ELSE /\ status' = St("Prediction failed", 0, "data")
            /\ UNCHANGED <<prediction, tensors>>
    /\ UNCHANGED <<labels, currentLabel, examples, model, dataset, fitLog,
                   idbModel, lsLabels, trains, saves, loads, arrIn>>

(* ----------------------------- persistence ----------------------------- *)
\* what model.save writes: the topology and the weights as they are now
artifactOf(m, fit) == [kind |-> "stored", units |-> m.units, snap |-> fit]

\* what tf.loadLayersModel builds from the artifact
modelOf(artifact) ==
  [kind |-> "model", id |-> 0, units |-> artifact.units, snap |-> artifact.snap]

\* a saveModel call: pc "saving" until IndexedDB answered, then "saved"
SaveTask(pc, m, ls) == [pc |-> pc, m |-> m, labels |-> ls]

\* saveModel up to the await
saveModel ==
  IF model = NoModel
  THEN /\ status' = St("No trained model to save", 0, "")
       /\ UNCHANGED <<labels, currentLabel, examples, model, prediction,
                      dataset, fitLog, idbModel, lsLabels, trains, predicts,
                      saves, loads, arrIn, tensors>>
  ELSE /\ InFlight < MaxInFlight
       /\ saves' = saves (+) SetToBag({SaveTask("saving", model, labels)})
       /\ UNCHANGED <<labels, currentLabel, examples, model, status,
                      prediction, dataset, fitLog, idbModel, lsLabels, trains,
                      predicts, loads, arrIn, tensors>>

\* model.save against IndexedDB.  written = FALSE: the write failed and the
\* promise rejects, which runs the catch.
saveModel_write ==
  \E t \in BagToSet(saves), written \in BOOLEAN :
    /\ t.pc = "saving"
    /\ IF written
       THEN /\ idbModel' = artifactOf(t.m, fitOf(t.m))
            /\ saves' = (saves (-) SetToBag({t}))
                          (+) SetToBag({SaveTask("saved", t.m, t.labels)})
            /\ UNCHANGED status
       ELSE /\ saves' = saves (-) SetToBag({t})
            /\ status' = St("Save failed", 0, "model.save")
            /\ UNCHANGED idbModel
    /\ UNCHANGED <<labels, currentLabel, examples, model, prediction, dataset,
                   fitLog, lsLabels, trains, predicts, loads, arrIn, tensors>>

\* saveModel after the await.  stored = FALSE: localStorage.setItem throws.
saveModel_resume ==
  \E t \in BagToSet(saves), stored \in BOOLEAN :
    /\ t.pc = "saved"
    /\ saves' = saves (-) SetToBag({t})
    /\ IF stored
       THEN /\ lsLabels' = JSONstringify(t.labels)
            /\ status' = St("Model saved to IndexedDB", 0, "")
       ELSE /\ status' = St("Save failed", 0, "setItem")
            /\ UNCHANGED lsLabels
    /\ UNCHANGED <<labels, currentLabel, examples, model, prediction, dataset,
                   fitLog, idbModel, trains, predicts, loads, arrIn, tensors>>

\* loadModel up to the await
loadModel ==
  /\ InFlight < MaxInFlight
  /\ loads' = loads (+) SetToBag({LoadTask("reading", NoArtifact)})
  /\ UNCHANGED <<labels, currentLabel, examples, model, status, prediction,
                 dataset, fitLog, idbModel, lsLabels, trains, predicts, saves,
                 arrIn, tensors>>

\* tf.loadLayersModel against IndexedDB.  readable = FALSE: the artifact
\* cannot be read.  A missing or unreadable artifact rejects the promise,
\* which runs the catch.
loadModel_read ==
  \E t \in BagToSet(loads), readable \in BOOLEAN :
    /\ t.pc = "reading"
    /\ IF idbModel # NoArtifact /\ readable
       THEN /\ loads' = (loads (-) SetToBag({t}))
                          (+) SetToBag({LoadTask("read", idbModel)})
            /\ UNCHANGED status
       ELSE /\ loads' = loads (-) SetToBag({t})
            /\ status' = St("No saved model found", 0, "")
    /\ UNCHANGED <<labels, currentLabel, examples, model, prediction, dataset,
                   fitLog, idbModel, lsLabels, trains, predicts, saves, arrIn, tensors>>

\* loadModel after the await
loadModel_resume ==
  \E t \in BagToSet(loads) :
    /\ t.pc = "read"
    /\ loads' = loads (-) SetToBag({t})
    /\ model' = modelOf(t.artifact)
    /\ LET savedLabels == JSONparse(getItemOrNull(lsLabels))
       IN  IF ~savedLabels.ok
           THEN /\ status' = St("No saved model found", 0, "")
                /\ UNCHANGED <<labels, currentLabel>>
           ELSE /\ status' = St("Model loaded from IndexedDB", 0, "")
                /\ IF savedLabels.isArray /\ Len(savedLabels.items) > 0
                   THEN /\ labels' = savedLabels.items
                        /\ currentLabel' = At(savedLabels.items, 0)
                   ELSE UNCHANGED <<labels, currentLabel>>
    /\ UNCHANGED <<examples, prediction, dataset, fitLog, idbModel, lsLabels,
                   trains, predicts, saves, arrIn, tensors>>

(* ---------------------------- specification ---------------------------- *)
\* a handler the user triggers
Click(handler) == clicks < MaxClicks /\ clicks' = clicks + 1 /\ handler

\* a continuation the event loop runs
Resume(step) == step /\ UNCHANGED clicks

Next ==
  \/ Click(selectLabel)
  \/ Click(clearCanvas)
  \/ Click(addExample)
  \/ Click(addLabel)
  \/ Click(removeLabel)
  \/ Click(train)
  \/ Resume(train_onEpochEnd)
  \/ Resume(train_complete)
  \/ Resume(train_catch)
  \/ Click(predict)
  \/ Resume(predict_resume)
  \/ Click(saveModel)
  \/ Resume(saveModel_write)
  \/ Resume(saveModel_resume)
  \/ Click(loadModel)
  \/ Resume(loadModel_read)
  \/ Resume(loadModel_resume)

Spec == Init /\ [][Next]_vars

(* ------------------- the argmax of predict on its own ------------------ *)
\* the orders labels can be in: every duplicate-free, non-empty sequence of
\* label names
labelOrders ==
  {ls \in UNION {[1..n -> LabelNames] : n \in 1..Cardinality(LabelNames)} :
     \A i \in 1..Len(ls) : \A j \in 1..Len(ls) : ls[i] = ls[j] => i = j}

\* the arrays Array.from(data) can be: floats, NaN among them
probVectors == UNION {[1..n -> (0..MaxProb) \cup {NaN}] : n \in 1..MaxLen}

\* the component with some labels and a probability vector at hand
Init_argmax ==
  /\ labels \in labelOrders
  /\ currentLabel = labels[1]
  /\ arrIn \in probVectors
  /\ examples = [l \in LabelNames |-> 0]
  /\ model = NoModel
  /\ status = St("Ready", 0, "")
  /\ prediction = NoPrediction
  /\ dataset = [xs |-> <<>>, ys |-> <<>>]
  /\ fitLog = <<>>
  /\ idbModel = NoArtifact
  /\ lsLabels = <<>>
  /\ trains = {}
  /\ predicts = EmptyBag
  /\ saves = EmptyBag
  /\ loads = EmptyBag
  /\ tensors = NoTensors
  /\ clicks = 0

\* the argmax and the label lookup of predict, applied to arrIn
predict_argmax ==
  /\ prediction = NoPrediction
  /\ prediction' = makePrediction(labels, arrIn)
  /\ UNCHANGED <<labels, currentLabel, examples, model, status, dataset,
                 fitLog, idbModel, lsLabels, trains, predicts, saves, loads,
                 arrIn, tensors, clicks>>

Next_argmax == predict_argmax

SpecArgmax == Init_argmax /\ [][Next_argmax]_vars

(* ------------------------------- claims -------------------------------- *)
\* C1: every train step taken with fewer examples than labels sets the
\* insufficient-data status and builds no model: the live model, the
\* dataset, the labels, the list of built models and the runs in flight are
\* as before.
C1_TrainInsufficientData ==
  [][(train /\ Len(dataset.xs) < Len(labels)) =>
       /\ status' = St("Need at least 1 example per class", Len(labels), "")
       /\ model' = model
       /\ dataset' = dataset
       /\ labels' = labels
       /\ fitLog' = fitLog
       /\ trains' = trains]_vars

\* train was refused while a model was live
C1_Witness ==
  /\ status.kind = "Need at least 1 example per class"
  /\ model # NoModel
  /\ Len(dataset.xs) < Len(labels)

\* C2: a train run that ends in "Training failed" leaves the model that was
\* live before the run: a train step that fails on the spot does not change
\* model, and a run that fails in m.fit does not leave its own model live.
C2_FailureKeepsPreviousModel ==
  [][/\ (train /\ status'.kind = "Training failed") => model' = model
     /\ \A t \in trains :
          (train_catch /\ t \notin trains') => model' # t.m]_vars

\* C3: no predict call runs its forward pass on a model that train built and
\* whose m.fit is still running.
C3_PredictSeesFinishedModel ==
  \A t \in BagToSet(predicts) : t.fit # "running"

\* C4: at most one train run is suspended in m.fit.
C4_OneTrainingRun == Cardinality(trains) <= 1

\* C5: whenever a save of a fully trained model has just succeeded, the
\* stored label list is as long as the output layer of the stored model is
\* wide.
C5_PersistedPairConsistent ==
  (status.kind = "Model saved to IndexedDB" /\ idbModel.snap = "done") =>
    /\ idbModel # NoArtifact
    /\ LET savedLabels == JSONparse(getItemOrNull(lsLabels))
       IN  /\ savedLabels.ok /\ savedLabels.isArray
           /\ Len(savedLabels.items) = idbModel.units

\* C6: an addExample step that reports success adds one to the count of
\* the current label, keeps every other count and appends one tensor and
\* one target; any other addExample step reports the failure and keeps the
\* dataset and the counts, and a current label outside labels always fails.
C6_AddExampleFrame ==
  [][addExample =>
       IF status'.kind = "Added example for"
       THEN /\ includes(labels, currentLabel)
            /\ examples'[currentLabel] = examples[currentLabel] + 1
            /\ \A l \in LabelNames \ {currentLabel} : examples'[l] = examples[l]
            /\ Len(dataset'.xs) = Len(dataset.xs) + 1
            /\ Len(dataset'.ys) = Len(dataset.ys) + 1
            /\ SubSeq(dataset'.xs, 1, Len(dataset.xs)) = dataset.xs
            /\ SubSeq(dataset'.ys, 1, Len(dataset.ys)) = dataset.ys
       ELSE /\ status'.kind = "Failed to add example"
            /\ dataset' = dataset
            /\ examples' = examples]_vars

\* a second label got its first example after another label had one
C6_Witness ==
  /\ status.kind = "Added example for"
  /\ examples[status.text] = 1
  /\ \E l \in LabelNames \ {status.text} : examples[l] = 1

noDuplicates(ls) ==
  \A i \in 1..Len(ls) : \A j \in 1..Len(ls) : ls[i] = ls[j] => i = j

\* C7: labels never holds a string twice and never is empty; removeLabel
\* on a single label keeps labels, and addLabel either keeps labels or
\* appends one string that is not empty and was not in it.
C7_LabelSetInvariant ==
  /\ [](noDuplicates(labels) /\ Len(labels) >= 1)
  /\ [][/\ (removeLabel /\ Len(labels) = 1) => labels' = labels
        /\ addLabel =>
             \/ labels' = labels
             \/ \E l \in LabelNames :
                  ~includes(labels, l) /\ labels' = Append(labels, l)]_vars

\* a single label is left, the state in which removeLabel is rejected
C7_Witness == Len(labels) = 1 /\ clicks < MaxClicks

\* C8: every target in the dataset is as long as labels and holds exactly
\* one 1.
C8_TargetsMatchLabelSet ==
  \A i \in 1..Len(dataset.ys) :
    LET y == dataset.ys[i].data
    IN  /\ Len(y) = Len(labels)
        /\ Cardinality({k \in 1..Len(y) : y[k] = 1}) = 1
        /\ \A k \in 1..Len(y) : y[k] \in {0, 1}

\* C9: whenever predict sets a prediction of numbers, in a session whose
\* train runs have all completed, its label is one of the labels of that
\* moment and its probabilities are as many as the labels.
C9_PredictionAligned ==
  [][(/\ prediction' # prediction
      /\ trains = {}
      /\ \A k \in 1..Len(fitLog) : fitLog[k] = "done"
      /\ prediction'.kind = "prediction"
      /\ \A i \in 1..Len(prediction'.probs) : prediction'.probs[i] # NaN) =>
       /\ includes(labels', prediction'.label)
       /\ Len(prediction'.probs) = Len(labels')]_vars

\* position i of arr holds the maximum and no earlier position does
isFirstMax(arr, i) ==
  /\ \A j \in 1..Len(arr) : arr[j] # NaN /\ arr[j] <= arr[i]
  /\ \A j \in 1..(i - 1) : arr[j] < arr[i]

\* C10: the label of a prediction is the label at the lowest index at
\* which the maximum of its probabilities occurs, for a unique maximum and
\* for a tie alike.
C10_ArgmaxFirstIndex ==
  prediction.kind = "prediction" =>
    \A i \in 1..Len(prediction.probs) :
      (isFirstMax(prediction.probs, i) /\ i <= Len(labels)) =>
        prediction.label = labels[i]

\* a tie between two indices was resolved to the lower one
C10_Witness ==
  /\ prediction.kind = "prediction"
  /\ \E i \in 1..Len(prediction.probs) : \E j \in (i + 1)..Len(prediction.probs) :
       /\ isFirstMax(prediction.probs, i)
       /\ prediction.probs[j] = prediction.probs[i]
       /\ j <= Len(labels)
       /\ prediction.label = labels[i]

\* C11: every predict step taken without a live model sets the
\* model-not-ready status, starts no forward pass and keeps the prediction,
\* the dataset, the labels and both stored artifacts.
C11_PredictModelNotReady ==
  [][(predict /\ model = NoModel) =>
       /\ status' = St("Train (or load) a model first", 0, "")
       /\ predicts' = predicts
       /\ prediction' = prediction
       /\ dataset' = dataset
       /\ labels' = labels
       /\ idbModel' = idbModel
       /\ lsLabels' = lsLabels
       /\ tensors' = tensors]_vars

\* predict was refused with examples in the dataset and no model
C11_Witness ==
  /\ status.kind = "Train (or load) a model first"
  /\ model = NoModel
  /\ Len(dataset.xs) > 0

\* C12: after a failed save the store holds no weights of a trained model
\* without a label list.
C12_SaveAllOrNothing ==
  (status.kind = "Save failed" /\ idbModel.snap = "done") => lsLabels # <<>>

\* a loadModel call ends in "No saved model found"
loadReportsAbsent ==
  /\ loadModel_read \/ loadModel_resume
  /\ BagCardinality(loads') < BagCardinality(loads)
  /\ status'.kind = "No saved model found"

\* C13: a loadModel call that reports "No saved model found" is one whose
\* read of the model artifact failed, and it keeps the model, the labels,
\* the current label, the dataset and the counts; a read that finds no
\* artifact always reports it, and a call whose read succeeded reports
\* "Model loaded from IndexedDB".
C13_LoadAbsent ==
  [][/\ loadReportsAbsent =>
          /\ \E t \in BagToSet(loads) :
               t.pc = "reading" /\ loads' = loads (-) SetToBag({t})
          /\ model' = model
          /\ labels' = labels
          /\ currentLabel' = currentLabel
          /\ dataset' = dataset
          /\ examples' = examples
     /\ (loadModel_read /\ idbModel = NoArtifact) => loadReportsAbsent
     /\ loadModel_resume => status'.kind = "Model loaded from IndexedDB"]_vars

\* a load found nothing while the session had a model and examples
C13_Witness ==
  /\ status.kind = "No saved model found"
  /\ model # NoModel
  /\ Len(dataset.xs) > 0
  /\ idbModel = NoArtifact

\* C14: in a session with a single train run, the model that is live when
\* the run reports "Training complete!" is the model the run built.
C14_CompletedModelIsLive ==
  [][\A t \in trains :
       (train_complete /\ t \notin trains' /\ Len(fitLog) = 1) =>
         model' = t.m]_vars

\* C15: X and Y are alive exactly while their train run is suspended in
\* m.fit: two per run in flight and none for a run that has ended or failed
\* in a concat; the tensors the dataset holds are all alive.
C15_BatchTensorsReleased ==
  /\ tensors.batch = 2 * Cardinality(trains)
  /\ tensors.held = Len(dataset.xs) + Len(dataset.ys)

\* Y failed to concatenate after X was made, and X was released
C15_Witness ==
  /\ status = St("Training failed", 0, "concat")
  /\ concatOk(dataset.xs)
  /\ ~concatOk(dataset.ys)
  /\ tensors.batch = 0

\* C16: with every train run completed, the tensors of predict that are
\* alive are the x and probs of the predict calls suspended in
\* outTensor.data(): none is left by a call that has ended.
C16_InferenceTensorsReleased ==
  (trains = {} /\ \A i \in 1..Len(fitLog) : fitLog[i] = "done") =>
    tensors.infer = 2 * BagCardinality(predicts)

\* C17: every per-epoch status carries the epoch index, the loss and the
\* accuracy.
C17_EpochObservations ==
  status.kind = "Epoch" => status = formatEpochStatus(status.n - 1)

\* C18: no step lowers the number of tensors or of targets in the dataset
\* or the count of any label.
C18_CountsNeverDecrease ==
  [][/\ Len(dataset'.xs) >= Len(dataset.xs)
     /\ Len(dataset'.ys) >= Len(dataset.ys)
     /\ \A l \in LabelNames : examples'[l] >= examples[l]]_vars

\* circle got an example and was removed afterwards: its count and its
\* tensors are still there
C18_Witness ==
  /\ ~includes(labels, "circle")
  /\ examples["circle"] >= 1
  /\ Len(dataset.xs) >= 1

RECURSIVE SumCounts(_, _)
SumCounts(counts, names) ==
  IF names = {} THEN 0
  ELSE LET l == CHOOSE n \in names : TRUE
       IN  counts[l] + SumCounts(counts, names \ {l})

\* C19: xs and ys are equally long, as long as the counts add up to, and a
\* step raises the count of a label by one exactly when it appends an
\* example under that label and leaves it otherwise.
C19_CountsDerivedFromDataset ==
  /\ [](/\ Len(dataset.xs) = Len(dataset.ys)
        /\ Len(dataset.xs) = SumCounts(examples, LabelNames))
  /\ [][\A l \in LabelNames :
          examples'[l] =
            examples[l] + (IF /\ Len(dataset'.xs) = Len(dataset.xs) + 1
                              /\ l = currentLabel
                           THEN 1 ELSE 0)]_vars

\* two examples under one label
C19_Witness ==
  /\ Len(dataset.xs) = 2
  /\ \E l \in LabelNames : examples[l] = 2

\* C20: the current label is one of the labels, and addExample never
\* reports a label that was not found.
C20_CurrentLabelInLabelSet ==
  /\ includes(labels, currentLabel)
  /\ ~(status.kind = "Failed to add example" /\ status.text = "Label not found")

\* the current label was removed and the selection moved to the label left
C20_Witness ==
  /\ labels = <<"square">>
  /\ currentLabel = "square"
  /\ clicks > 0

====
